---- MODULE Spec2Model ----
(***************************************************************************)
(* The process supervisor of lspsd (src/src/lib.rs): LspsD::with_conf, its *)
(* retry-by-relaunch readiness loop, LspsD::stop and Drop for LspsD, with  *)
(* the supervised child process as an environment that may start          *)
(* listening on its control port or exit at any moment.                    *)
(***************************************************************************)
EXTENDS Integers, Sequences, FiniteSets, TLC

\* ------------------------------------------------------------------ bounds
\* Largest Conf::attempts a launch is given.
MaxAttempts == 1
\* Number of local TCP ports the operating system can hand out.
NumPorts == 2
\* Number of events other than channel events the root's node queues.
MaxOthers == 1
\* channels the daemon's node lists, at most
MaxChannels == 2

\* ------------------------------------------------------------------ values
None == "None"
\* Conf::tmpdir, Conf::staticdir and the TEMPDIR_ROOT environment variable.
TmpdirChoices == {None, "/cfg_tmp"}
StaticdirChoices == {None, "/data"}
EnvChoices == {None, "/ramdisk"}
\* std::env::temp_dir(), the root TempDir::new() creates under.
DefaultTmpRoot == "/tmp"

\* Threads that may call LspsD::with_conf; Spec runs the first one alone.
Calls == {1, 2}
Launchers == {1}

NoPort == 0
NoProc == <<0, 0>>
NoStatus == "none"
\* ExitStatus of a child that ended by itself (exit code 1, Rust's panic
\* code 101) and of one ended by Child::kill (SIGKILL).
OwnExitStatuses == {"exit1", "exit101"}
KilledStatus == "signal9"

Confs == [tmpdir : TmpdirChoices, staticdir : StaticdirChoices, attempts : 0..MaxAttempts]

VARIABLES
    env,        \* value of TEMPDIR_ROOT
    conf,       \* conf[c]: the Conf the caller passed to with_conf
    pc,         \* pc[c]: where thread c is in with_conf / stop / drop
    remaining,  \* remaining[c]: conf.attempts of the innermost with_conf frame
    att,        \* att[c]: one record per with_conf frame (launch attempt), oldest first
    result,     \* result[c]: what with_conf returned
    inst,       \* inst[c]: the LspsD value returned, or NoInst
    disk,       \* directories that exist
    dlog,       \* dlog[c]: what Drop for LspsD has done so far, in order
    args,       \* the daemon's LspArgs: api_port and lightning_port of the root
    child_args, \* the ports the root passed to the dependent it spawned
    fs,         \* fs[d]: state of the root's data_dir and of "{data_dir}.child"
    main,       \* main[n]: where main() of process n is
    handler,    \* handler[h]: where the handler of request h of the root is
    event,      \* event[h]: the local `event` of handler h, fetched and not yet acknowledged
    hlog,       \* hlog[h]: what handler h has done so far, in order
    height,     \* height[w]: the argument of the wait_height call of waiter w
    chain,      \* blocks of the regtest chain
    esplora,    \* height the chain indexer has reached
    events,     \* event queue of the root's node
    others,     \* events other than channel events queued so far
    node,       \* node[n]: wallet tip and channel_ready handshake of node n
    funding,    \* funding[ch]: chain height at which the funding of channel ch was broadcast
    channels,   \* what node.list_channels() of the daemon a client talks to returns
    client      \* the LspsClient call under way: operation, place, requests sent, reply, result

svars == <<env, conf, pc, remaining, att, result, inst, disk, dlog>>

nvars == <<args, child_args, fs, main, handler, event, hlog, height, chain,
           esplora, events, others, node, funding>>

cvars == <<channels, client>>

vars == <<svars, nvars, cvars>>

\* The ports the allocator may hand out: NumPorts for each launch under way.
Ports == 1..(NumPorts * Cardinality({c \in Calls : pc[c] # "unused"}))

NoInst == [process |-> 0, api_socket |-> NoPort, lightning_socket |-> NoPort,
           work_dir |-> <<None, 0>>, kind |-> None, lsp_config |-> NoProc,
           stopped |-> NoStatus]
NoResult == [kind |-> "none", status |-> NoStatus]

Last(s) == s[Len(s)]

\* ------------------------------------------------------- pure parts of with_conf

\* conf.tmpdir.clone().or_else(|| env::var("TEMPDIR_ROOT")...ok())
EffectiveTmpdir(tmpdir, envRoot) == IF tmpdir # None THEN tmpdir ELSE envRoot

\* A plausible slip: the staticdir arm is matched before the conflict arm.
WorkDirRule_StaticFirst(tmpdir, staticdir) ==
    IF staticdir # None THEN [kind |-> "Persistent", root |-> staticdir]
    ELSE IF tmpdir # None THEN [kind |-> "Temporary", root |-> tmpdir]
    ELSE [kind |-> "Temporary", root |-> DefaultTmpRoot]

\* A plausible slip: TempDir::new() used where TempDir::new_in(tmpdir) is meant.
WorkDirRule_IgnoresRoot(tmpdir, staticdir) ==
    IF tmpdir # None /\ staticdir # None THEN [kind |-> "BothDirsSpecified", root |-> None]
    ELSE IF tmpdir # None THEN [kind |-> "Temporary", root |-> DefaultTmpRoot]
    ELSE IF staticdir # None THEN [kind |-> "Persistent", root |-> staticdir]
    ELSE [kind |-> "Temporary", root |-> DefaultTmpRoot]

\* match (&tmpdir, &conf.staticdir) { ... }
WorkDirRule(tmpdir, staticdir) ==
    IF tmpdir # None /\ staticdir # None THEN [kind |-> "BothDirsSpecified", root |-> None]
    ELSE IF tmpdir # None THEN [kind |-> "Temporary", root |-> tmpdir]
    ELSE IF staticdir # None THEN [kind |-> "Persistent", root |-> staticdir]
    ELSE [kind |-> "Temporary", root |-> DefaultTmpRoot]

\* The directory of attempt k of call c: a TempDir gets a name no other
\* TempDir has; a persistent directory is the path itself.
UniqueName(c, k) == (c - 1) * (MaxAttempts + 2) + k
DirOf(rule, c, k) ==
    IF rule.kind = "Temporary" THEN <<rule.root, UniqueName(c, k)>> ELSE <<rule.root, 0>>

\* A plausible slip: a child that is not answering yet is taken for a dead one.
HasExited_NotListening(a) == a.proc # "listening"

\* process.try_wait()? is Some(status)
HasExited(a) == a.proc = "exited"

\* A plausible slip: the status of the first attempt is the one reported.
ObservedStatus_First(frames) == frames[1].status

\* The status in Some(status) of the innermost frame's process.try_wait().
ObservedStatus(frames) == Last(frames).status

\* A plausible slip: the test lets a budget of zero retry once more.
ShouldRetry_AtZero(attempts) == attempts > -1

\* if conf.attempts > 0
ShouldRetry(attempts) == attempts > 0

\* A plausible slip: the loop is left without looking at the probe's result.
ProbeReady_Always(answer) == TRUE

\* if let Ok(lsp_config) = client.get_lsps_config()
ProbeReady(answer) == answer # NoProc

\* A plausible slip: the orderly stop is skipped for every kind of directory.
DropRunsStop_Never(kind) == FALSE

\* if let DataDir::Persistent(_) = self.work_dir { let _ = self.stop(); }
DropRunsStop(kind) == kind = "Persistent"

\* A plausible slip: the work directory is removed whatever its kind.
RemovedWithOwner_Always(kind) == TRUE

\* DataDir::Temporary holds a TempDir, removed from disk when its owner is
\* dropped; DataDir::Persistent holds a PathBuf, whose drop leaves the disk alone.
RemovedWithOwner(kind) == kind = "Temporary"

\* ------------------------------------------------------------ the environment

Alive(a) == a.proc \in {"running", "listening"}

\* The processes that hold port p open.
Holders(p) ==
    {ck \in Calls \X (1..(MaxAttempts + 1)) :
        /\ ck[2] <= Len(att[ck[1]])
        /\ att[ck[1]][ck[2]].proc = "listening"
        /\ p \in {att[ck[1]][ck[2]].api, att[ck[1]][ck[2]].ln}}

\* The process that answers GET /config on control port p, if any.
Answer(p) ==
    LET L == {ck \in Holders(p) : att[ck[1]][ck[2]].api = p}
    IN IF L = {} THEN NoProc ELSE CHOOSE ck \in L : TRUE

\* A plausible slip: only the innermost of the frames gives up its directory.
OwnedTempDirs_InnermostOnly(c, n) ==
    {att[c][k].dir : k \in {j \in {n} \cap (1..n) : RemovedWithOwner(att[c][j].kind)}}

\* Directories of the frames 1..n of call c that their owner removes on drop.
OwnedTempDirs(c, n) ==
    {att[c][k].dir : k \in {j \in 1..n : RemovedWithOwner(att[c][j].kind)}}

\* ------------------------------------------------------- values of the daemon

\* Width of the u16 port arguments of LspArgs.
MaxU16 == 65535

PortArgChoices == {1, 2, 4, MaxU16}

\* generate_to_address(101, ..) of get_funded_bitcoind
FundedBlocks == 101

\* generate_to_address(1, ..) of the root's self-funding
FundingBlocks == 1

\* generate_to_address(6, ..) of the confirmation loop: the depth at which a
\* node takes the funding transaction as confirmed
ConfirmBlocks == 6

Procs == {"root", "dep"}
\* The requests looked at: open-channel request 1 is the dependent's own,
\* open-channel request 2 comes from an outside client, and one faucet request.
BootRequest == 1
Handlers == {1, 2}
Faucet == 3
Requests == Handlers \cup {Faucet}
Waiters == {0} \cup Requests
\* The channel that open-channel request h opens is channel h.
Chans == Handlers
Dirs == {"data_dir", "data_dir.child"}
NoHeight == 0
NoArgs == [api |-> 0, ln |-> 0]
NoEvent == <<"none", 0>>
FreshNode ==
    [tip |-> NoHeight, locked |-> [ch \in Chans |-> FALSE], got |-> [ch \in Chans |-> FALSE]]

NoReply == [from |-> "nobody", body |-> <<"none">>]
NoOutcome == <<"none">>
NoCall == [op |-> "none", pc |-> "idle", requests |-> 0, reply |-> NoReply, outcome |-> NoOutcome]

\* The client state of a world in which no client is looked at.
ClientUnused ==
    /\ channels = <<>>
    /\ client = NoCall

\* The daemon state of a world in which no daemon is looked at.
NodeUnused ==
    /\ args = NoArgs
    /\ child_args = NoArgs
    /\ fs = [d \in Dirs |-> "absent"]
    /\ main = [n \in Procs |-> "unborn"]
    /\ handler = [h \in Requests |-> "idle"]
    /\ event = [h \in Handlers |-> NoEvent]
    /\ hlog = [h \in Handlers |-> <<>>]
    /\ height = [w \in Waiters |-> NoHeight]
    /\ chain = NoHeight
    /\ esplora = NoHeight
    /\ events = <<>>
    /\ others = 0
    /\ node = [n \in Procs |-> FreshNode]
    /\ funding = [ch \in Chans |-> NoHeight]

\* ---------------------------------------------------------------------- Init

Init ==
    /\ env \in EnvChoices
    /\ conf \in [Calls -> Confs]
    /\ \A c \in Calls \ Launchers : conf[c] = [tmpdir |-> None, staticdir |-> None, attempts |-> 0]
    /\ pc = [c \in Calls |-> IF c \in Launchers THEN "dir" ELSE "unused"]
    /\ remaining = [c \in Calls |-> conf[c].attempts]
    /\ att = [c \in Calls |-> <<>>]
    /\ result = [c \in Calls |-> NoResult]
    /\ inst = [c \in Calls |-> NoInst]
    /\ disk \in SUBSET {<<s, 0>> : s \in StaticdirChoices \ {None}}
    /\ dlog = [c \in Calls |-> <<>>]
    /\ NodeUnused
    /\ ClientUnused

\* ------------------------------------------------------------------ with_conf

\* A plausible slip: an I/O error is retried like an early exit.
ReturnErr_RetriesIo(c, kind, status) ==
    IF kind = "Io" /\ remaining[c] > 0
    THEN /\ remaining' = [remaining EXCEPT ![c] = @ - 1]
         /\ pc' = [pc EXCEPT ![c] = "dir"]
         /\ UNCHANGED <<cvars, nvars, env, conf, att, result, inst, disk, dlog>>
    ELSE /\ pc' = [pc EXCEPT ![c] = "err"]
         /\ result' = [result EXCEPT ![c] = [kind |-> kind, status |-> status]]
         /\ disk' = disk \ OwnedTempDirs(c, Len(att[c]))
         /\ UNCHANGED <<cvars, nvars, env, conf, remaining, att, inst, dlog>>

\* with_conf returns Err: every frame's locals are dropped, innermost first.
\* Dropping a Child neither kills nor waits; dropping a TempDir removes it.
ReturnErr(c, kind, status) ==
    /\ pc' = [pc EXCEPT ![c] = "err"]
    /\ result' = [result EXCEPT ![c] = [kind |-> kind, status |-> status]]
    /\ disk' = disk \ OwnedTempDirs(c, Len(att[c]))
    /\ UNCHANGED <<cvars, nvars, env, conf, remaining, att, inst, dlog>>

\* Lines 292-304: resolve the working directory of this frame.
SelectDir(c) ==
    /\ pc[c] = "dir"
    /\ LET rule == WorkDirRule(EffectiveTmpdir(conf[c].tmpdir, env), conf[c].staticdir)
           k == Len(att[c]) + 1
       IN IF rule.kind = "BothDirsSpecified"
          THEN ReturnErr(c, "BothDirsSpecified", NoStatus)
          ELSE \/ /\ att' = [att EXCEPT ![c] = Append(@,
                             [kind |-> rule.kind, dir |-> DirOf(rule, c, k),
                              api |-> NoPort, ln |-> NoPort, allocs |-> 0,
                              polled |-> FALSE, proc |-> "unborn",
                              status |-> NoStatus, probedBy |-> NoProc])]
                  /\ disk' = disk \cup {DirOf(rule, c, k)}
                  /\ pc' = [pc EXCEPT ![c] = "api_port"]
                  /\ UNCHANGED <<cvars, nvars, env, conf, remaining, result, inst, dlog>>
               \* TempDir::new_in(..)?, fs::create_dir_all(..)?, TempDir::new()?
               \/ ReturnErr(c, "Io", NoStatus)

\* A plausible slip: a retry keeps the control port of the attempt it replaces.
AllocApiPort_Reuse(c) ==
    /\ pc[c] = "api_port"
    /\ \/ \E p \in Ports :
            /\ IF Len(att[c]) > 1
               THEN p = att[c][Len(att[c]) - 1].api /\ att' = [att EXCEPT ![c][Len(att[c])].api = p]
               ELSE /\ Holders(p) = {}
                    /\ att' = [att EXCEPT ![c][Len(att[c])].api = p,
                                           ![c][Len(att[c])].allocs = @ + 1]
            /\ pc' = [pc EXCEPT ![c] = "ln_port"]
            /\ UNCHANGED <<cvars, nvars, env, conf, remaining, result, inst, disk, dlog>>
       \/ ReturnErr(c, "Io", NoStatus)

\* get_available_port(): bind port 0, read the port back, release the listener.
AllocApiPort(c) ==
    /\ pc[c] = "api_port"
    /\ \/ \E p \in Ports :
            /\ Holders(p) = {}
            /\ att' = [att EXCEPT ![c][Len(att[c])].api = p,
                                   ![c][Len(att[c])].allocs = @ + 1]
            /\ pc' = [pc EXCEPT ![c] = "ln_port"]
            /\ UNCHANGED <<cvars, nvars, env, conf, remaining, result, inst, disk, dlog>>
       \/ ReturnErr(c, "Io", NoStatus)

AllocLnPort(c) ==
    /\ pc[c] = "ln_port"
    /\ \/ \E p \in Ports :
            /\ Holders(p) = {}
            /\ att' = [att EXCEPT ![c][Len(att[c])].ln = p,
                                   ![c][Len(att[c])].allocs = @ + 1]
            /\ pc' = [pc EXCEPT ![c] = "spawn"]
            /\ UNCHANGED <<cvars, nvars, env, conf, remaining, result, inst, disk, dlog>>
       \/ ReturnErr(c, "Io", NoStatus)

\* Command::new(exe).args(args).stdout(stdout).spawn()?
Spawn(c) ==
    /\ pc[c] = "spawn"
    /\ \/ /\ att' = [att EXCEPT ![c][Len(att[c])].proc = "running"]
          /\ pc' = [pc EXCEPT ![c] = "try_wait"]
          /\ UNCHANGED <<cvars, nvars, env, conf, remaining, result, inst, disk, dlog>>
       \/ ReturnErr(c, "Io", NoStatus)

\* Top of the readiness loop: process.try_wait(), then retry or give up.
TryWait(c) ==
    /\ pc[c] = "try_wait"
    /\ LET a == Last(att[c])
       IN \/ IF HasExited(a)
             THEN IF ShouldRetry(remaining[c])
                  THEN /\ remaining' = [remaining EXCEPT ![c] = @ - 1]
                       /\ att' = [att EXCEPT ![c][Len(att[c])].polled = FALSE]
                       /\ pc' = [pc EXCEPT ![c] = "dir"]
                       /\ UNCHANGED <<cvars, nvars, env, conf, result, inst, disk, dlog>>
                  ELSE ReturnErr(c, "EarlyExit", ObservedStatus(att[c]))
             ELSE /\ pc' = [pc EXCEPT ![c] = "probe"]
                  /\ UNCHANGED <<cvars, nvars, env, conf, remaining, att, result, inst, disk, dlog>>
          \* try_wait()? itself fails: the error leaves with_conf at once.
          \/ ReturnErr(c, "Io", NoStatus)

\* A plausible slip: a probe that fails is returned to the caller as an error.
ProbeFailed_Returns(c) == ReturnErr(c, "Io", NoStatus)

\* get_lsps_config() gave Err: debug!, i += 1, and the loop goes round.
\* `polled` is i > 0; i is a local of the loop and means nothing once the
\* loop is left for a retry or with the instance.
ProbeFailed(c) ==
    /\ pc' = [pc EXCEPT ![c] = "try_wait"]
    /\ att' = [att EXCEPT ![c][Len(att[c])].polled = TRUE]
    /\ UNCHANGED <<cvars, nvars, env, conf, remaining, result, inst, disk, dlog>>

\* thread::sleep, then client.get_lsps_config(); on Ok the loop breaks and
\* with_conf returns the LspsD built from this frame's locals.
Probe(c) ==
    /\ pc[c] = "probe"
    /\ LET k == Len(att[c])
           a == att[c][k]
           answer == Answer(a.api)
       IN IF ProbeReady(answer)
          THEN /\ att' = [att EXCEPT ![c][k].probedBy = answer, ![c][k].polled = FALSE]
               /\ inst' = [inst EXCEPT ![c] =
                             [process |-> k, api_socket |-> a.api,
                              lightning_socket |-> a.ln, work_dir |-> a.dir,
                              kind |-> a.kind, lsp_config |-> answer,
                              stopped |-> NoStatus]]
               /\ result' = [result EXCEPT ![c] = [kind |-> "Ok", status |-> NoStatus]]
               /\ disk' = disk \ OwnedTempDirs(c, k - 1)
               /\ pc' = [pc EXCEPT ![c] = "live"]
               /\ UNCHANGED <<cvars, nvars, env, conf, remaining, dlog>>
          ELSE ProbeFailed(c)

\* --------------------------------------------------------- the child process

\* The daemon binds its peer port (node.start) and its control port
\* (TcpListener::bind) and serves its control API; a port that is taken, or
\* one port given for both, fails the bind and the daemon ends (ChildExit).
ChildListen(c, k) ==
    /\ k <= Len(att[c])
    /\ att[c][k].proc = "running"
    /\ att[c][k].api # att[c][k].ln
    /\ Holders(att[c][k].api) = {}
    /\ Holders(att[c][k].ln) = {}
    /\ att' = [att EXCEPT ![c][k].proc = "listening"]
    /\ UNCHANGED <<cvars, nvars, env, conf, pc, remaining, result, inst, disk, dlog>>

\* The daemon ends by itself: a port it was given is taken, a panic, a crash.
ChildExit(c, k) ==
    /\ k <= Len(att[c])
    /\ Alive(att[c][k])
    /\ \E s \in OwnExitStatuses :
          att' = [att EXCEPT ![c][k].proc = "exited", ![c][k].status = s]
    /\ UNCHANGED <<cvars, nvars, env, conf, pc, remaining, result, inst, disk, dlog>>

\* ------------------------------------------------------------- stop and drop

\* LspsD::stop: self.process.wait() and nothing else.
StopCall(c) ==
    /\ pc[c] = "live"
    /\ pc' = [pc EXCEPT ![c] = "in_stop"]
    /\ UNCHANGED <<cvars, nvars, env, conf, remaining, att, result, inst, disk, dlog>>

StopReturn(c) ==
    /\ pc[c] = "in_stop"
    /\ HasExited(att[c][inst[c].process])
    /\ pc' = [pc EXCEPT ![c] = "live"]
    /\ inst' = [inst EXCEPT ![c].stopped = att[c][inst[c].process].status]
    /\ UNCHANGED <<cvars, nvars, env, conf, remaining, att, result, disk, dlog>>

\* self.process.kill(), then the fields of the LspsD are dropped.
KillAndRelease(c, log) ==
    /\ att' = [att EXCEPT ![c][inst[c].process] =
                  IF Alive(@) THEN [@ EXCEPT !.proc = "exited", !.status = KilledStatus] ELSE @]
    /\ disk' = IF RemovedWithOwner(inst[c].kind) THEN disk \ {inst[c].work_dir} ELSE disk
    /\ dlog' = [dlog EXCEPT ![c] = log \o <<"kill">>]
    /\ pc' = [pc EXCEPT ![c] = "dropped"]
    /\ UNCHANGED <<cvars, nvars, env, conf, remaining, result, inst>>

\* Drop for LspsD, up to the point where it blocks (if it does).
Drop(c) ==
    /\ pc[c] = "live"
    /\ IF DropRunsStop(inst[c].kind)
       THEN /\ pc' = [pc EXCEPT ![c] = "drop_stop"]
            /\ dlog' = [dlog EXCEPT ![c] = @ \o <<"stop_enter">>]
            /\ UNCHANGED <<cvars, nvars, env, conf, remaining, att, result, inst, disk>>
       ELSE KillAndRelease(c, dlog[c])

\* The self.stop() inside drop returns, and drop goes on to the kill.
DropStopReturn(c) ==
    /\ pc[c] = "drop_stop"
    /\ HasExited(att[c][inst[c].process])
    /\ KillAndRelease(c, dlog[c] \o <<"stop_return">>)

\* ---------------------------------------------------------------------- Spec

\* The steps of a with_conf, stop or drop that is under way on thread c.
Progress(c) ==
    \/ SelectDir(c)
    \/ AllocApiPort(c)
    \/ AllocLnPort(c)
    \/ Spawn(c)
    \/ TryWait(c)
    \/ Probe(c)
    \/ StopReturn(c)
    \/ DropStopReturn(c)

Next ==
    \/ \E c \in Launchers : SelectDir(c)
    \/ \E c \in Launchers : AllocApiPort(c)
    \/ \E c \in Launchers : AllocLnPort(c)
    \/ \E c \in Launchers : Spawn(c)
    \/ \E c \in Launchers : TryWait(c)
    \/ \E c \in Launchers : Probe(c)
    \/ \E c \in Launchers : StopCall(c)
    \/ \E c \in Launchers : StopReturn(c)
    \/ \E c \in Launchers : Drop(c)
    \/ \E c \in Launchers : DropStopReturn(c)
    \/ \E c \in Launchers, k \in 1..(MaxAttempts + 1) : ChildListen(c, k)
    \/ \E c \in Launchers, k \in 1..(MaxAttempts + 1) : ChildExit(c, k)

Spec == Init /\ [][Next]_vars

\* A spawned child that neither serves nor has exited does one or the other.
ChildSettles(c) ==
    \E k \in 1..(MaxAttempts + 1) :
        /\ k <= Len(att[c]) /\ att[c][k].proc = "running"
        /\ ChildListen(c, k) \/ ChildExit(c, k)

\* A launch with any Conf, with TEMPDIR_ROOT unset and no directory there yet.
InitSettling == Init /\ env = None /\ disk = {}

\* The running threads make progress, and every spawned child eventually
\* either exits or answers the configuration probe.
SettlingSpec ==
    /\ InitSettling /\ [][Next]_vars
    /\ \A c \in Launchers : WF_vars(Progress(c)) /\ WF_vars(ChildSettles(c))

\* Two launches by the same caller, side by side, each with no retry budget,
\* on a machine where no persistent directory exists yet; the second is given
\* a persistent path, the first either the same path or none.
InitPair ==
    /\ env = None
    /\ conf \in [Calls -> {cf \in Confs : cf.tmpdir = None /\ cf.attempts = 0}]
    /\ conf[2].staticdir # None
    /\ pc = [c \in Calls |-> "dir"]
    /\ remaining = [c \in Calls |-> conf[c].attempts]
    /\ att = [c \in Calls |-> <<>>]
    /\ result = [c \in Calls |-> NoResult]
    /\ inst = [c \in Calls |-> NoInst]
    /\ disk = {}
    /\ dlog = [c \in Calls |-> <<>>]
    /\ NodeUnused
    /\ ClientUnused

NextPair ==
    \/ \E c \in Calls : SelectDir(c)
    \/ \E c \in Calls : AllocApiPort(c)
    \/ \E c \in Calls : AllocLnPort(c)
    \/ \E c \in Calls : Spawn(c)
    \/ \E c \in Calls : TryWait(c)
    \/ \E c \in Calls : Probe(c)
    \/ \E c \in Calls : StopCall(c)
    \/ \E c \in Calls : StopReturn(c)
    \/ \E c \in Calls : Drop(c)
    \/ \E c \in Calls : DropStopReturn(c)
    \/ \E c \in Calls, k \in 1..(MaxAttempts + 1) : ChildListen(c, k)
    \/ \E c \in Calls, k \in 1..(MaxAttempts + 1) : ChildExit(c, k)

PairSpec == InitPair /\ [][NextPair]_vars

\* A thread inside with_conf, stop or drop keeps running whenever it is not
\* blocked; nothing obliges the caller to stop or drop, nor the daemon to act.
LiveSpec == Init /\ [][Next]_vars /\ \A c \in Launchers : WF_vars(Progress(c))

\* ==================================================================== claims

\* ------------------------------------------------------------------ the daemon
\* main() of the root (started with no --esplora-url) and of the dependent it
\* spawns, the open_channel handler of the root, and around them the chain,
\* the indexer and the channel_ready handshake of the two nodes.

\* `args.lightning_port + 1` and `args.api_port + 1` on u16, when not trapped.
Succ16(p) == (p + 1) % (MaxU16 + 1)

NodeStarted(n) ==
    IF n = "root"
    THEN main[n] \in {"fund", "mine", "wait", "sync", "spawn", "bind", "serving"}
    ELSE main[n] \in {"call", "await", "sync", "bind", "serving"}

ArgsOf(n) == IF n = "root" THEN args ELSE child_args

DirOfProc(n) == IF n = "root" THEN "data_dir" ELSE "data_dir.child"

\* A listener holds port p: the peer listener of a started node, or the
\* control API of a serving one. Port 0 is "any free port" and is never held.
PortHeld(p) ==
    /\ p # 0
    /\ \E n \in Procs :
          \/ NodeStarted(n) /\ ArgsOf(n).ln = p
          \/ main[n] = "serving" /\ ArgsOf(n).api = p

\* config_handler: node_id() and listening_addresses()[0], which main() set to
\* 0.0.0.0:{lightning_port}.
ConfigAnswer(n) == [pubkey |-> n, port |-> ArgsOf(n).ln]

\* The node has seen the funding transaction buried deep enough.
Confirmed(tip, ch) == funding[ch] # NoHeight /\ tip - funding[ch] >= ConfirmBlocks

\* The channel is ready on a node once it has sent its own channel_ready and
\* got the peer's.
ChannelIsReady(r, ch) == r.locked[ch] /\ r.got[ch]

\* Channels a node lists: those being opened, from their funding on.
Channels(n) == Cardinality({ch \in Chans : funding[ch] # NoHeight})

Synced(n) ==
    [node[n] EXCEPT !.tip = esplora,
                    !.locked = [ch \in Chans |-> @[ch] \/ Confirmed(esplora, ch)]]

Ev(kind, ch) == <<kind, ch>>

RECURSIVE ReadyEvents(_, _, _)
ReadyEvents(q, r, ch) ==
    IF ch \notin Chans THEN q
    ELSE ReadyEvents(IF ~ChannelIsReady(node["root"], ch) /\ ChannelIsReady(r, ch)
                     THEN Append(q, Ev("ChannelReady", ch))
                     ELSE q,
                     r, ch + 1)

\* The root's node queues Event::ChannelReady for each channel whose side
\* becomes ready.
QueueAfter(n, r) == IF n = "root" THEN ReadyEvents(events, r, 1) ELSE events

\* node.sync_wallets()
SyncWallets(n) ==
    /\ node' = [node EXCEPT ![n] = Synced(n)]
    /\ events' = QueueAfter(n, Synced(n))

\* An unwrap() or expect() of main() fails: the process dies.
Panic(n) ==
    /\ main' = [main EXCEPT ![n] = "panicked"]
    /\ UNCHANGED <<cvars, svars, args, child_args, fs, handler, event, hlog, height, chain,
                   esplora, events, others, node, funding>>

\* get_funded_bitcoind() and get_esplorad()
RootStartChain ==
    /\ main["root"] = "start"
    /\ chain' = FundedBlocks
    /\ main' = [main EXCEPT !["root"] = "rm_data"]
    /\ UNCHANGED <<cvars, svars, args, child_args, fs, handler, event, hlog, height,
                   esplora, events, others, node, funding>>

\* std::fs::remove_dir_all(d).unwrap()
RemoveDir(d, next) ==
    IF fs[d] = "absent"
    THEN Panic("root")
    ELSE /\ fs' = [fs EXCEPT ![d] = "absent"]
         /\ main' = [main EXCEPT !["root"] = next]
         /\ UNCHANGED <<cvars, svars, args, child_args, handler, event, hlog, height, chain,
                        esplora, events, others, node, funding>>

RootRemoveDataDir == main["root"] = "rm_data" /\ RemoveDir("data_dir", "rm_child")

RootRemoveChildDir == main["root"] = "rm_child" /\ RemoveDir("data_dir.child", "build")

\* builder.build_with_fs_store().unwrap(); node.start().unwrap()
BuildAndStart(n) ==
    /\ main[n] = "build"
    /\ IF PortHeld(ArgsOf(n).ln)
       THEN Panic(n)
       ELSE /\ fs' = [fs EXCEPT ![DirOfProc(n)] = IF @ = "old" THEN "old" ELSE "store"]
            /\ main' = [main EXCEPT ![n] = IF n = "root" THEN "fund" ELSE "call"]
            /\ UNCHANGED <<cvars, svars, args, child_args, handler, event, hlog, height, chain,
                           esplora, events, others, node, funding>>

\* new_address(), send_to_address(.., 40 BTC, ..)
RootFund ==
    /\ main["root"] = "fund"
    /\ main' = [main EXCEPT !["root"] = "mine"]
    /\ UNCHANGED <<cvars, svars, args, child_args, fs, handler, event, hlog, height, chain,
                   esplora, events, others, node, funding>>

\* generate_to_address(1, ..); height = get_blockchain_info().blocks
RootMine ==
    /\ main["root"] = "mine"
    /\ chain' = chain + FundingBlocks
    /\ height' = [height EXCEPT ![0] = chain + FundingBlocks]
    /\ main' = [main EXCEPT !["root"] = "wait"]
    /\ UNCHANGED <<cvars, svars, args, child_args, fs, handler, event, hlog,
                   esplora, events, others, node, funding>>

\* A plausible slip: the root goes on without waiting for the indexer.
RootWaitHeight_NoWait ==
    /\ main["root"] = "wait"
    /\ main' = [main EXCEPT !["root"] = "sync"]
    /\ UNCHANGED <<cvars, svars, args, child_args, fs, handler, event, hlog, height, chain,
                   esplora, events, others, node, funding>>

\* esplora.wait_height(height)
RootWaitHeight ==
    /\ main["root"] = "wait"
    /\ esplora >= height[0]
    /\ main' = [main EXCEPT !["root"] = "sync"]
    /\ UNCHANGED <<cvars, svars, args, child_args, fs, handler, event, hlog, height, chain,
                   esplora, events, others, node, funding>>

RootSyncWallets ==
    /\ main["root"] = "sync"
    /\ SyncWallets("root")
    /\ main' = [main EXCEPT !["root"] = "spawn"]
    /\ UNCHANGED <<cvars, svars, args, child_args, fs, handler, event, hlog, height, chain,
                   esplora, others, funding>>

\* The child's arguments and Command::spawn. `port + 1` on a u16 that holds
\* 65535 panics in a build with overflow checks and wraps to 0 in one without.
RootSpawnChild ==
    /\ main["root"] = "spawn"
    /\ \/ /\ args.ln = MaxU16 \/ args.api = MaxU16
          /\ Panic("root")
       \/ /\ child_args' = [api |-> Succ16(args.api), ln |-> Succ16(args.ln)]
          /\ main' = [main EXCEPT !["root"] = "bind", !["dep"] = "build"]
          /\ UNCHANGED <<cvars, svars, args, fs, handler, event, hlog, height, chain,
                         esplora, events, others, node, funding>>

\* TcpListener::bind(0.0.0.0:{api_port}).await.unwrap(), then axum::serve
BindApi(n) ==
    /\ main[n] = "bind"
    /\ IF PortHeld(ArgsOf(n).api)
       THEN Panic(n)
       ELSE /\ main' = [main EXCEPT ![n] = "serving"]
            /\ UNCHANGED <<cvars, svars, args, child_args, fs, handler, event, hlog, height, chain,
                           esplora, events, others, node, funding>>

\* faucet_client.open_channel(..).unwrap(): the POST goes to the root's
\* control port; nothing listening there is an Err, hence a panic.
DepCallFaucet ==
    /\ main["dep"] = "call"
    /\ IF main["root"] = "serving"
       THEN \E h \in {BootRequest} :
               /\ handler[h] = "idle"
               /\ handler' = [handler EXCEPT ![h] = "open"]
               /\ main' = [main EXCEPT !["dep"] = "await"]
               /\ UNCHANGED <<cvars, svars, args, child_args, fs, event, hlog, height, chain,
                              esplora, events, others, node, funding>>
       ELSE Panic("dep")

\* node.sync_wallets().unwrap() of the dependent, after the call returned
DepSyncWallets ==
    /\ main["dep"] = "sync"
    /\ SyncWallets("dep")
    /\ main' = [main EXCEPT !["dep"] = "bind"]
    /\ UNCHANGED <<cvars, svars, args, child_args, fs, handler, event, hlog, height, chain,
                   esplora, others, funding>>

\* ------------------------------------------------- open_channel handler (root)

Did(h, what) == [hlog EXCEPT ![h] = Append(@, what)]

\* A plausible slip: the loop is left on channel-ready before event_handled.
AfterFetch_ReadyBreaks(ev) ==
    IF ev[1] = "ChannelPending" THEN "mine"
    ELSE IF ev[1] = "ChannelReady" THEN "respond" ELSE "ack"

\* Where the loop body goes with the event it fetched.
AfterFetch(ev) == IF ev[1] = "ChannelPending" THEN "mine" ELSE "ack"

\* A plausible slip: the wallet is resynchronized before the indexer is awaited.
NextStep_SyncFirst(step) ==
    IF step = "mine" THEN "sync" ELSE IF step = "sync" THEN "wait" ELSE "ack"

\* The channel-pending branch: generate_to_address, wait_height, sync_wallets,
\* and then the event_handled at the end of the loop body.
NextStep(step) ==
    IF step = "mine" THEN "wait" ELSE IF step = "wait" THEN "sync" ELSE "ack"

\* break after the event_handled of channel-ready, else the loop goes round.
AfterAck(ev) == IF ev[1] = "ChannelReady" THEN "respond" ELSE "fetch"

\* state.node.open_channel(..).unwrap(): connects to the peer at req.ip_port.
HandlerOpen(h) ==
    /\ handler[h] = "open"
    /\ IF NodeStarted("dep") /\ child_args.ln # 0
       THEN /\ handler' = [handler EXCEPT ![h] = "fetch"]
            /\ hlog' = Did(h, <<"open", NoEvent>>)
            /\ UNCHANGED <<cvars, svars, args, child_args, fs, main, event, height, chain,
                           esplora, events, others, node, funding>>
       ELSE /\ handler' = [handler EXCEPT ![h] = "panicked"]
            /\ main' = [main EXCEPT !["dep"] =
                            IF h = BootRequest /\ @ = "await" THEN "panicked" ELSE @]
            /\ UNCHANGED <<cvars, svars, args, child_args, fs, event, hlog, height, chain,
                           esplora, events, others, node, funding>>

\* let event = state.node.wait_next_event(): the head of the queue, left there
HandlerFetch(h) ==
    /\ handler[h] = "fetch"
    /\ events # <<>>
    /\ event' = [event EXCEPT ![h] = Head(events)]
    /\ handler' = [handler EXCEPT ![h] = AfterFetch(Head(events))]
    /\ hlog' = Did(h, <<"fetch", Head(events)>>)
    /\ UNCHANGED <<cvars, svars, args, child_args, fs, main, height, chain,
                   esplora, events, others, node, funding>>

\* generate_to_address(6, ..); info = get_blockchain_info()
HandlerMine(h) ==
    /\ handler[h] = "mine"
    /\ chain' = chain + ConfirmBlocks
    /\ height' = [height EXCEPT ![h] = chain + ConfirmBlocks]
    /\ handler' = [handler EXCEPT ![h] = NextStep("mine")]
    /\ hlog' = Did(h, <<"mine", event[h]>>)
    /\ UNCHANGED <<cvars, svars, args, child_args, fs, main, event,
                   esplora, events, others, node, funding>>

\* esplora.wait_height(info.blocks)
HandlerWaitHeight(h) ==
    /\ handler[h] = "wait"
    /\ esplora >= height[h]
    /\ handler' = [handler EXCEPT ![h] = NextStep("wait")]
    /\ hlog' = Did(h, <<"wait", event[h]>>)
    /\ UNCHANGED <<cvars, svars, args, child_args, fs, main, event, height, chain,
                   esplora, events, others, node, funding>>

\* state.node.sync_wallets().unwrap()
HandlerSyncWallets(h) ==
    /\ handler[h] = "sync"
    /\ SyncWallets("root")
    /\ handler' = [handler EXCEPT ![h] = NextStep("sync")]
    /\ hlog' = Did(h, <<"sync", event[h]>>)
    /\ UNCHANGED <<cvars, svars, args, child_args, fs, main, event, height, chain,
                   esplora, others, funding>>

\* state.node.event_handled(): drops the head of the queue
HandlerAck(h) ==
    /\ handler[h] = "ack"
    /\ events # <<>>
    /\ events' = Tail(events)
    /\ hlog' = Did(h, <<"ack", Head(events)>>)
    /\ handler' = [handler EXCEPT ![h] = AfterAck(event[h])]
    /\ event' = [event EXCEPT ![h] = NoEvent]
    /\ UNCHANGED <<cvars, svars, args, child_args, fs, main, height, chain,
                   esplora, others, node, funding>>

\* Json(OpenChannelResponse { .. }): the caller's open_channel returns Ok
HandlerRespond(h) ==
    /\ handler[h] = "respond"
    /\ handler' = [handler EXCEPT ![h] = "idle"]
    /\ hlog' = Did(h, <<"respond", event[h]>>)
    /\ main' = [main EXCEPT !["dep"] = IF h = BootRequest /\ @ = "await" THEN "sync" ELSE @]
    /\ UNCHANGED <<cvars, svars, args, child_args, fs, event, height, chain,
                   esplora, events, others, node, funding>>

\* --------------------------------------------- chain, indexer and peer traffic

\* The two nodes agree on channel ch, which node.open_channel of request ch
\* started, and the root broadcasts the funding transaction:
\* Event::ChannelPending is queued.
FundingBroadcast(ch) ==
    /\ funding[ch] = NoHeight
    /\ hlog[ch] # <<>>
    /\ funding' = [funding EXCEPT ![ch] = chain]
    /\ events' = Append(events, Ev("ChannelPending", ch))
    /\ UNCHANGED <<cvars, svars, args, child_args, fs, main, handler, event, hlog, height,
                   chain, esplora, others, node>>

\* The indexer catches up with the chain.
IndexerCatchUp ==
    /\ esplora < chain
    /\ esplora' = chain
    /\ UNCHANGED <<cvars, svars, args, child_args, fs, main, handler, event, hlog, height,
                   chain, events, others, node, funding>>

\* The periodic wallet sync of a running node.
BackgroundSync(n) ==
    /\ NodeStarted(n)
    /\ node[n].tip < esplora
    /\ SyncWallets(n)
    /\ UNCHANGED <<cvars, svars, args, child_args, fs, main, handler, event, hlog, height,
                   chain, esplora, others, funding>>

\* The channel_ready message of the peer of n for channel ch arrives at n.
DeliverChannelReady(n, ch) ==
    /\ NodeStarted(n)
    /\ \E m \in Procs \ {n} : node[m].locked[ch]
    /\ ~node[n].got[ch]
    /\ node' = [node EXCEPT ![n].got[ch] = TRUE]
    /\ events' = QueueAfter(n, [node[n] EXCEPT !.got[ch] = TRUE])
    /\ UNCHANGED <<cvars, svars, args, child_args, fs, main, handler, event, hlog, height,
                   chain, esplora, others, funding>>

\* The root's node queues an event that is neither channel-pending nor
\* channel-ready.
OtherEvent ==
    /\ NodeStarted("root")
    /\ others < MaxOthers
    /\ others' = others + 1
    /\ events' = Append(events, Ev("Other", 0))
    /\ UNCHANGED <<cvars, svars, args, child_args, fs, main, handler, event, hlog, height,
                   chain, esplora, node, funding>>

\* The daemon is started as a root. Its data directory is new, or holds
\* contents, or (started by hand) does not exist; the sibling used for the
\* dependent exists or not.
NodeInit ==
    /\ env = None
    /\ conf = [c \in Calls |-> [tmpdir |-> None, staticdir |-> None, attempts |-> 0]]
    /\ pc = [c \in Calls |-> "unused"]
    /\ remaining = [c \in Calls |-> 0]
    /\ att = [c \in Calls |-> <<>>]
    /\ result = [c \in Calls |-> NoResult]
    /\ inst = [c \in Calls |-> NoInst]
    /\ disk = {}
    /\ dlog = [c \in Calls |-> <<>>]
    /\ args \in [api : PortArgChoices, ln : PortArgChoices]
    /\ child_args = NoArgs
    /\ fs \in [Dirs -> {"absent", "empty", "old"}]
    /\ fs["data_dir.child"] # "empty"
    /\ main = [n \in Procs |-> IF n = "root" THEN "start" ELSE "unborn"]
    /\ handler = [h \in Requests |-> "idle"]
    /\ event = [h \in Handlers |-> NoEvent]
    /\ hlog = [h \in Handlers |-> <<>>]
    /\ height = [w \in Waiters |-> NoHeight]
    /\ chain = NoHeight
    /\ esplora = NoHeight
    /\ events = <<>>
    /\ others = 0
    /\ node = [n \in Procs |-> FreshNode]
    /\ funding = [ch \in Chans |-> NoHeight]
    /\ ClientUnused

\* The steps of main() of process n that are not blocked.
MainStep(n) ==
    \/ n = "root" /\ RootStartChain
    \/ n = "root" /\ RootRemoveDataDir
    \/ n = "root" /\ RootRemoveChildDir
    \/ BuildAndStart(n)
    \/ n = "root" /\ RootFund
    \/ n = "root" /\ RootMine
    \/ n = "root" /\ RootWaitHeight
    \/ n = "root" /\ RootSyncWallets
    \/ n = "root" /\ RootSpawnChild
    \/ n = "dep" /\ DepCallFaucet
    \/ n = "dep" /\ DepSyncWallets
    \/ BindApi(n)

HandlerStep(h) ==
    \/ HandlerOpen(h)
    \/ HandlerFetch(h)
    \/ HandlerMine(h)
    \/ HandlerWaitHeight(h)
    \/ HandlerSyncWallets(h)
    \/ HandlerAck(h)
    \/ HandlerRespond(h)

\* The steps of the daemon and of the world around it that the channels'
\* opening is made of.
NodeSteps ==
    \/ RootStartChain
    \/ RootRemoveDataDir
    \/ RootRemoveChildDir
    \/ \E n \in Procs : BuildAndStart(n)
    \/ RootFund
    \/ RootMine
    \/ RootWaitHeight
    \/ RootSyncWallets
    \/ RootSpawnChild
    \/ DepCallFaucet
    \/ DepSyncWallets
    \/ \E n \in Procs : BindApi(n)
    \/ \E h \in Handlers : HandlerOpen(h)
    \/ \E h \in Handlers : HandlerFetch(h)
    \/ \E h \in Handlers : HandlerMine(h)
    \/ \E h \in Handlers : HandlerWaitHeight(h)
    \/ \E h \in Handlers : HandlerSyncWallets(h)
    \/ \E h \in Handlers : HandlerAck(h)
    \/ \E h \in Handlers : HandlerRespond(h)
    \/ \E ch \in Chans : FundingBroadcast(ch)
    \/ IndexerCatchUp
    \/ \E n \in Procs : BackgroundSync(n)
    \/ \E n \in Procs, ch \in Chans : DeliverChannelReady(n, ch)

NodeNext ==
    \/ NodeSteps
    \/ OtherEvent

NodeSpec == NodeInit /\ [][NodeNext]_vars

\* Every process and handler keeps running while it is not blocked, the
\* indexer follows the chain, running nodes sync and messages arrive.
NodeLiveSpec ==
    /\ NodeInit /\ [][NodeNext]_vars
    /\ \A n \in Procs : WF_vars(MainStep(n))
    /\ \A h \in Handlers : WF_vars(HandlerStep(h))
    /\ \A ch \in Chans : WF_vars(FundingBroadcast(ch))
    /\ WF_vars(IndexerCatchUp)
    /\ \A n \in Procs : WF_vars(BackgroundSync(n))
    /\ \A n \in Procs, ch \in Chans : WF_vars(DeliverChannelReady(n, ch))

\* ----------------------------------------------- requests of outside clients
\* axum runs the handler of each request as a task of its own on the
\* multi-threaded runtime; the handlers share AppState and take no lock.

\* POST /channels of an outside client, naming the dependent as the peer.
ClientOpenChannel ==
    /\ main["root"] = "serving"
    /\ \E h \in Handlers \ {BootRequest} :
          /\ handler[h] = "idle"
          /\ hlog[h] = <<>>
          /\ handler' = [handler EXCEPT ![h] = "open"]
    /\ UNCHANGED <<cvars, svars, args, child_args, fs, main, event, hlog, height, chain,
                   esplora, events, others, node, funding>>

\* POST /faucet of an outside client reaches faucet_handler of the root.
FaucetRequest ==
    /\ main["root"] = "serving"
    /\ handler[Faucet] = "idle"
    /\ height[Faucet] = NoHeight
    /\ handler' = [handler EXCEPT ![Faucet] = "send"]
    /\ UNCHANGED <<cvars, svars, args, child_args, fs, main, event, hlog, height, chain,
                   esplora, events, others, node, funding>>

\* state.node.onchain_payment().send_to_address(&address, 100_000_000, None).unwrap()
FaucetSend ==
    /\ handler[Faucet] = "send"
    /\ handler' = [handler EXCEPT ![Faucet] = "mine"]
    /\ UNCHANGED <<cvars, svars, args, child_args, fs, main, event, hlog, height, chain,
                   esplora, events, others, node, funding>>

\* generate_to_address(1, ..); height = get_blockchain_info().blocks
FaucetMine ==
    /\ handler[Faucet] = "mine"
    /\ chain' = chain + FundingBlocks
    /\ height' = [height EXCEPT ![Faucet] = chain + FundingBlocks]
    /\ handler' = [handler EXCEPT ![Faucet] = "wait"]
    /\ UNCHANGED <<cvars, svars, args, child_args, fs, main, event, hlog,
                   esplora, events, others, node, funding>>

\* esplora.wait_height(height), then the response
FaucetWaitHeight ==
    /\ handler[Faucet] = "wait"
    /\ esplora >= height[Faucet]
    /\ handler' = [handler EXCEPT ![Faucet] = "idle"]
    /\ UNCHANGED <<cvars, svars, args, child_args, fs, main, event, hlog, height, chain,
                   esplora, events, others, node, funding>>

FaucetNext ==
    \/ NodeNext
    \/ FaucetRequest
    \/ FaucetSend
    \/ FaucetMine
    \/ FaucetWaitHeight

ChannelsNext ==
    \/ NodeSteps
    \/ ClientOpenChannel

\* The root is started on data directories left by an earlier run, with ports
\* that do not clash or with the highest control port.
ApiInit ==
    /\ NodeInit
    /\ args \in {[api |-> 1, ln |-> 4], [api |-> MaxU16, ln |-> 4]}
    /\ fs = [d \in Dirs |-> "old"]

\* A root and its dependent, and an outside client that asks the root's
\* faucet for funds.
FaucetSpec == ApiInit /\ [][FaucetNext]_vars

\* A root and its dependent, and an outside client that has the root open a
\* second channel; the root's node queues channel events only.
ChannelsSpec == ApiInit /\ [][ChannelsNext]_vars

\* ------------------------------------------------------------ the control client
\* LspsClient: one blocking minreq request per operation, and the JSON bodies
\* the daemon's handlers serve. A JSON value is <<"object", fields>>,
\* <<"array", elements>>, <<"string", s>>, <<"bool", b>> or <<"number", n>>.
\* pay_invoice reads a field that PayInvoiceResponse does not declare and is
\* left out.

Ops == {"get_lsps_config", "get_funding_address", "list_channels", "open_channel",
        "get_invoice", "sync", "get_balance"}

\* CompactChannel, cut down to a string and a bool field.
ChannelRecords == [channel_id : {"a", "b"}, is_usable : BOOLEAN]

RECURSIVE ListsUpTo(_)
ListsUpTo(n) ==
    IF n = 0 THEN {<<>>}
    ELSE LET shorter == ListsUpTo(n - 1) IN
         shorter \cup {Append(l, c) : l \in {x \in shorter : Len(x) = n - 1}, c \in ChannelRecords}

\* What Bolt11Invoice::from_str accepts, and a string it rejects.
GoodInvoice == "lnbcrt1"
BadInvoice == "not-an-invoice"
Bolt11Parses(str) == str = GoodInvoice

Ok(v) == <<"Ok", v>>
Err(e) == <<"Err", e>>
Panicked == <<"panic">>

\* serde_json of #[derive(Serialize)] CompactChannel
EncodeChannel(c) ==
    <<"object", [channel_id |-> <<"string", c.channel_id>>,
                 is_usable |-> <<"bool", c.is_usable>>]>>

\* serde_json of Vec<CompactChannel>
EncodeChannels(l) == <<"array", [i \in 1..Len(l) |-> EncodeChannel(l[i])]>>

\* The body each handler of the daemon returns as Json(..).
Served(op) ==
    CASE op = "get_lsps_config" ->
            <<"object", [pubkey |-> <<"string", "root">>, ip_port |-> <<"string", "0.0.0.0:4">>,
                         token |-> <<"null">>]>>
      [] op = "get_funding_address" -> <<"object", [address |-> <<"string", "bcrt1">>]>>
      [] op = "list_channels" -> <<"object", [channels |-> EncodeChannels(channels)]>>
      [] op = "open_channel" -> <<"object", [user_channel_id |-> <<"number", 1>>]>>
      [] op = "get_invoice" -> <<"object", [invoice |-> <<"string", GoodInvoice>>]>>
      [] op = "sync" -> <<"object", [synced |-> <<"bool", TRUE>>]>>
      [] op = "get_balance" ->
            <<"object", [total_onchain_balance_sats |-> <<"number", 1>>,
                         spendable_onchain_balance_sats |-> <<"number", 1>>]>>

\* Bodies of a server that is not this daemon, or of a handler that failed: one
\* that is no JSON of the expected type, and a GetInvoiceResponse whose
\* string is no invoice.
Unexpected == <<"string", "Internal Server Error">>
BadInvoiceBody == <<"object", [invoice |-> <<"string", BadInvoice>>]>>

\* The fields #[derive(Deserialize)] requires of the response type of op.
RequiredFields(op) ==
    CASE op = "get_lsps_config" -> {"pubkey", "ip_port"}
      [] op = "get_funding_address" -> {"address"}
      [] op = "open_channel" -> {"user_channel_id"}
      [] op = "get_invoice" -> {"invoice"}
      [] op = "get_balance" -> {"total_onchain_balance_sats", "spendable_onchain_balance_sats"}
      [] OTHER -> {}

IsChannelJson(j) ==
    /\ j[1] = "object"
    /\ {"channel_id", "is_usable"} \subseteq DOMAIN j[2]
    /\ j[2].channel_id[1] = "string"
    /\ j[2].is_usable[1] = "bool"

DecodeChannel(j) == [channel_id |-> j[2].channel_id[2], is_usable |-> j[2].is_usable[2]]

\* res.json::<Vec<CompactChannel>>()
DecodeChannelList(j) ==
    IF j[1] = "array" /\ \A i \in DOMAIN j[2] : IsChannelJson(j[2][i])
    THEN Ok([i \in DOMAIN j[2] |-> DecodeChannel(j[2][i])])
    ELSE Err("decode")

\* res.json::<T>() for the struct T that op reads
DecodeStruct(op, j) ==
    IF j[1] = "object" /\ RequiredFields(op) \subseteq DOMAIN j[2]
    THEN Ok(j[2])
    ELSE Err("decode")

\* What the operation makes of the reply to its request: `send()?`, then
\* `json::<T>()`, and in get_invoice `Bolt11Invoice::from_str(..).unwrap()`.
ClientResult(op, reply) ==
    IF reply.from = "nobody" THEN Err("transport")
    ELSE IF op = "sync" THEN Ok(<<>>)
    ELSE IF op = "list_channels" THEN DecodeChannelList(reply.body)
    ELSE LET r == DecodeStruct(op, reply.body) IN
         IF op = "get_invoice" /\ r[1] = "Ok"
         THEN IF Bolt11Parses(r[2].invoice[2]) THEN Ok(r[2].invoice[2]) ELSE Panicked
         ELSE r

\* A test calls an operation of the client.
ClientCall(op) ==
    /\ client.pc \in {"idle", "returned"}
    /\ client' = [NoCall EXCEPT !.op = op, !.pc = "calling"]
    /\ UNCHANGED <<svars, nvars, channels>>

\* minreq::get(url).send() or minreq::post(url)..send(): the one request
ClientSend ==
    /\ client.pc = "calling"
    /\ client' = [client EXCEPT !.pc = "sent", !.requests = @ + 1]
    /\ UNCHANGED <<svars, nvars, channels>>

\* Nothing listens at base_url, or the connection breaks: send() is an Err.
TransportFails ==
    /\ client.pc = "sent"
    /\ client' = [client EXCEPT !.pc = "replied", !.reply = NoReply]
    /\ UNCHANGED <<svars, nvars, channels>>

\* The daemon's handler of the route answers.
DaemonReplies ==
    /\ client.pc = "sent"
    /\ client' = [client EXCEPT !.pc = "replied",
                                !.reply = [from |-> "daemon", body |-> Served(client.op)]]
    /\ UNCHANGED <<svars, nvars, channels>>

\* What answers at base_url sends a body the operation does not expect.
OtherReplies ==
    /\ client.pc = "sent"
    /\ \/ client' = [client EXCEPT !.pc = "replied",
                                    !.reply = [from |-> "other", body |-> Unexpected]]
       \/ /\ client.op = "get_invoice"
          /\ client' = [client EXCEPT !.pc = "replied",
                                       !.reply = [from |-> "other", body |-> BadInvoiceBody]]
    /\ UNCHANGED <<svars, nvars, channels>>

\* The operation returns, or the unwrap in it panics.
ClientReturn ==
    /\ client.pc = "replied"
    /\ client' = [client EXCEPT !.pc = "returned",
                                !.outcome = ClientResult(client.op, client.reply)]
    /\ UNCHANGED <<svars, nvars, channels>>

\* A client and the daemon it talks to, whose node lists any channels.
ClientInit ==
    /\ NodeUnused
    /\ env = None
    /\ conf = [c \in Calls |-> [tmpdir |-> None, staticdir |-> None, attempts |-> 0]]
    /\ pc = [c \in Calls |-> "unused"]
    /\ remaining = [c \in Calls |-> 0]
    /\ att = [c \in Calls |-> <<>>]
    /\ result = [c \in Calls |-> NoResult]
    /\ inst = [c \in Calls |-> NoInst]
    /\ disk = {}
    /\ dlog = [c \in Calls |-> <<>>]
    /\ channels \in ListsUpTo(MaxChannels)
    /\ client = NoCall

ClientNext ==
    \/ \E op \in Ops : ClientCall(op)
    \/ ClientSend
    \/ TransportFails
    \/ DaemonReplies
    \/ OtherReplies
    \/ ClientReturn

ClientSpec == ClientInit /\ [][ClientNext]_vars

\* Number of processes call c has spawned, over all its attempts.
Spawns(c) == Cardinality({k \in 1..Len(att[c]) : att[c][k].proc # "unborn"})

\* C1: when with_conf fails with the retry budget exhausted (EarlyExit), no
\* child spawned by that call, in any attempt, is still running.
C1_NoChildLeftRunning ==
    \A c \in Calls :
        (pc[c] = "err" /\ result[c].kind = "EarlyExit")
            => \A k \in 1..Len(att[c]) : ~Alive(att[c][k])

C1_Witness ==
    \E c \in Calls :
        /\ pc[c] = "err" /\ result[c].kind = "EarlyExit"
        /\ Len(att[c]) >= 2
        /\ Spawns(c) = Len(att[c])

\* C2: with_conf returns Ok only after GET /config was answered on the control
\* socket of the very attempt whose process and ConnectParams it returns,
\* which is the last attempt made.
C2_ReturnedAfterProbe ==
    \A c \in Calls :
        result[c].kind = "Ok" =>
            LET i == inst[c]
                a == att[c][i.process]
            IN /\ i.process = Len(att[c])
               /\ a.proc # "unborn"
               /\ a.probedBy # NoProc
               /\ att[a.probedBy[1]][a.probedBy[2]].api = a.api
               /\ i.lsp_config = a.probedBy
               /\ i.api_socket = a.api
               /\ i.lightning_socket = a.ln
               /\ \A k \in 1..(Len(att[c]) - 1) : att[c][k].probedBy = NoProc

C2_Witness ==
    \E c \in Calls : result[c].kind = "Ok" /\ pc[c] = "live" /\ inst[c].process >= 2

\* C3: with Conf::tmpdir and Conf::staticdir both given, with_conf returns
\* BothDirsSpecified having created no directory, allocated no port and
\* spawned no process.
C3_BothDirsRejectedFirst ==
    /\ [](\A c \in Calls :
            (conf[c].tmpdir # None /\ conf[c].staticdir # None) =>
                /\ att[c] = <<>>
                /\ Spawns(c) = 0
                /\ pc[c] \in {"dir", "err"}
                /\ pc[c] = "err" => result[c].kind = "BothDirsSpecified")
    /\ [][\A c \in Launchers :
            (conf[c].tmpdir # None /\ conf[c].staticdir # None) =>
                (disk' = disk /\ att' = att)]_vars

C3_Witness ==
    \E c \in Calls :
        /\ conf[c].tmpdir # None /\ conf[c].staticdir # None
        /\ pc[c] = "err" /\ result[c].kind = "BothDirsSpecified"

C5_StaticdirWhateverEnv ==
    \A c \in Calls :
        (conf[c].tmpdir = None /\ conf[c].staticdir # None) =>
            /\ result[c].kind # "BothDirsSpecified"
            /\ \A k \in 1..Len(att[c]) :
                  att[c][k].kind = "Persistent" /\ att[c][k].dir = <<conf[c].staticdir, 0>>

\* C6: once an LspsD is dropped, its working directory is gone if it was
\* Temporary and still there if it was Persistent; the step that completes
\* the drop of a persistent instance removes nothing from the disk.
C6_DirsAfterDrop ==
    /\ [](\A c \in Calls :
            pc[c] = "dropped" =>
                /\ inst[c].kind \in {"Temporary", "Persistent"}
                /\ inst[c].kind = "Temporary" => inst[c].work_dir \notin disk
                /\ inst[c].kind = "Persistent" => inst[c].work_dir \in disk)
    /\ [][\A c \in Calls :
            (pc[c] # "dropped" /\ pc'[c] = "dropped" /\ inst[c].kind = "Persistent")
                => disk' = disk]_vars

C6_Witness ==
    \E c \in Calls :
        pc[c] = "dropped" /\ inst[c].kind = "Persistent" /\ inst[c].work_dir \in disk

\* C7: every drop of an LspsD, once begun, goes on to issue the kill of the
\* child and to complete, also when the daemon never exits by itself.
C7_DropCompletes ==
    \A c \in Calls :
        (dlog[c] # <<>>) ~> (pc[c] = "dropped" /\ Last(dlog[c]) = "kill")

\* C8: every call of LspsD::stop on a running daemon eventually returns.
C8_StopReturns ==
    \A c \in Calls : (pc[c] = "in_stop") ~> (pc[c] = "live")

\* C9: in drop, a persistent instance enters the stop path, leaves it, and
\* only then kills; a temporary instance never enters the stop path and its
\* drop is the kill alone.
C9_DropOrder ==
    \A c \in Calls :
        /\ inst[c].kind = "Persistent" =>
              dlog[c] \in {<<>>, <<"stop_enter">>, <<"stop_enter", "stop_return", "kill">>}
        /\ inst[c].kind # "Persistent" => dlog[c] \in {<<>>, <<"kill">>}
        /\ pc[c] = "dropped" => (dlog[c] # <<>> /\ Last(dlog[c]) = "kill")
        /\ pc[c] = "drop_stop" => dlog[c] = <<"stop_enter">>

C9_Witness ==
    \E c \in Calls :
        pc[c] = "dropped" /\ dlog[c] = <<"stop_enter", "stop_return", "kill">>

\* C10: a launch with attempts = N whose children all exit early has spawned
\* N processes when it returns EarlyExit, and never more than N.
C10_SpawnsWithinAttempts ==
    \A c \in Calls :
        /\ Spawns(c) <= conf[c].attempts
        /\ result[c].kind = "EarlyExit" => Spawns(c) = conf[c].attempts

C12_OnlyEarlyExitRetries ==
    /\ [](\A c \in Calls :
            /\ \A k \in 2..Len(att[c]) : att[c][k - 1].proc = "exited"
            /\ result[c].kind \in {"Io", "EarlyExit", "BothDirsSpecified"} => pc[c] = "err"
            /\ result[c].kind = "Io" => Spawns(c) <= Len(att[c]))
    /\ [][\A c \in Calls :
            pc[c] = "err" =>
                /\ pc'[c] = "err" /\ result'[c] = result[c]
                /\ Len(att'[c]) = Len(att[c]) /\ Spawns(c)' = Spawns(c)]_vars

C12_Witness ==
    \E c \in Calls :
        /\ pc[c] = "err" /\ result[c].kind = "Io"
        /\ Len(att[c]) = 2 /\ att[c][2].proc = "unborn" /\ remaining[c] = 0
        /\ conf[c].attempts > 0

\* C13: the EarlyExit returned when the budget is exhausted carries the exit
\* status of the last child spawned.
C13_LastExitStatus ==
    \A c \in Calls :
        result[c].kind = "EarlyExit" =>
            /\ remaining[c] = 0
            /\ Spawns(c) = Len(att[c])
            /\ Last(att[c]).proc = "exited"
            /\ result[c].status = Last(att[c]).status
            /\ result[c].status \in OwnExitStatuses

C13_Witness ==
    \E c \in Calls :
        /\ result[c].kind = "EarlyExit" /\ Len(att[c]) = 2
        /\ att[c][1].status # att[c][2].status
        /\ result[c].status = att[c][2].status

\* C14: a configuration probe that fails while the child is alive never makes
\* with_conf return: the loop goes back to try_wait, and EarlyExit is returned
\* only for a child seen to have exited.
C14_FailedProbeKeepsPolling ==
    /\ [][\A c \in Calls :
            (pc[c] = "probe" /\ pc'[c] # "probe") =>
                \/ pc'[c] = "try_wait" /\ result'[c] = result[c] /\ inst'[c] = inst[c]
                \/ /\ pc'[c] = "live" /\ result'[c].kind = "Ok"
                   /\ \E k \in 1..(MaxAttempts + 1), d \in Calls :
                         /\ k <= Len(att[d]) /\ att[d][k].proc = "listening"
                         /\ att[d][k].api = Last(att[c]).api]_vars
    /\ [](\A c \in Calls : result[c].kind = "EarlyExit" => ~Alive(Last(att[c])))

C14_Witness ==
    \E c \in Calls :
        /\ pc[c] = "try_wait" /\ Last(att[c]).polled
        /\ Alive(Last(att[c])) /\ result[c] = NoResult

\* An instance returned by with_conf and not yet dropped.
LiveInstance(c) == pc[c] \in {"live", "in_stop", "drop_stop"}

\* C20: no two live instances share a working directory, and each live
\* instance owns exactly one process, which no other instance owns.
C20_NoSharedWorkDir ==
    \A c \in Calls :
        LiveInstance(c) =>
            /\ inst[c].process = Len(att[c])
            /\ \A k \in 1..(Len(att[c]) - 1) : ~Alive(att[c][k])
            /\ \A d \in Calls \ {c} :
                  LiveInstance(d) => inst[d].work_dir # inst[c].work_dir

\* The fetches and acknowledgements of handler h, in order.
IsFetchOrAck(e) == e[1] \in {"fetch", "ack"}

FetchAcks(h) == SelectSeq(hlog[h], IsFetchOrAck)

\* The four ports of a root and its dependent are distinct and none overflows.
PortsDoNotClash ==
    /\ args.api # MaxU16 /\ args.ln # MaxU16
    /\ args.api \notin {args.ln, args.ln + 1}
    /\ args.ln # args.api + 1

\* C15: a root started on a freshly created data directory, with ports that
\* do not clash, eventually serves its control API, and its /config answers
\* the configured lightning port.
C15_FreshRootBecomesReady ==
    (/\ main["root"] = "start"
     /\ fs["data_dir"] = "empty"
     /\ PortsDoNotClash)
    ~> (/\ main["root"] = "serving"
        /\ ConfigAnswer("root") = [pubkey |-> "root", port |-> args.ln])

\* C16: once the dependent's open-channel call has returned and the dependent
\* has resynchronized, the dependent holds exactly one channel and that
\* channel is ready on its side.
C16_DependentChannelReady ==
    (PortsDoNotClash /\ main["dep"] \in {"bind", "serving"}) =>
        /\ Channels("dep") = 1
        /\ ChannelIsReady(node["dep"], BootRequest)

\* C17: in the confirmation loop every fetched event is acknowledged exactly
\* once before the next fetch and before the loop is left, whatever the event
\* is, and the event that an acknowledgement drops is the one fetched.
C17_EveryFetchAcked ==
    \A h \in Handlers :
        LET fa == FetchAcks(h) IN
        /\ \A i \in 1..Len(fa) :
              IF i % 2 = 1
              THEN fa[i][1] = "fetch"
              ELSE fa[i][1] = "ack" /\ fa[i][2] = fa[i - 1][2]
        /\ (Len(fa) % 2 = 1) <=> (event[h] # NoEvent)
        /\ handler[h] \in {"fetch", "respond", "idle"} => Len(fa) % 2 = 0
        /\ handler[h] \in {"mine", "wait", "sync", "ack"} => Len(fa) % 2 = 1

C17_Witness ==
    \E h \in Handlers :
        /\ handler[h] = "idle"
        /\ \A kind \in {"ChannelPending", "ChannelReady", "Other"} :
              \E i \in 1..Len(hlog[h]) : hlog[h][i][1] = "ack" /\ hlog[h][i][2][1] = kind

\* C18: the handler answers only after it fetched a channel-ready event; on a
\* channel-pending event it mines, then waits until the indexer has reached
\* the height mined, then resynchronizes the wallet, then acknowledges and
\* fetches again; it does none of the three for any other event.
C18_ConfirmationOrder ==
    \A h \in Handlers :
        LET l == hlog[h] IN
        /\ \A i \in 1..Len(l) :
              /\ l[i][1] = "respond" =>
                    \E j \in 1..(i - 1) : l[j][1] = "fetch" /\ l[j][2][1] = "ChannelReady"
              /\ (l[i][1] = "fetch" /\ l[i][2][1] = "ChannelPending") =>
                    /\ i + 1 <= Len(l) => l[i + 1][1] = "mine"
                    /\ i + 2 <= Len(l) => l[i + 2][1] = "wait"
                    /\ i + 3 <= Len(l) => l[i + 3][1] = "sync"
                    /\ i + 4 <= Len(l) => l[i + 4][1] = "ack"
                    /\ i + 5 <= Len(l) => l[i + 5][1] = "fetch"
              /\ l[i][1] = "mine" =>
                    i > 1 /\ l[i - 1][1] = "fetch" /\ l[i - 1][2][1] = "ChannelPending"
              /\ l[i][1] = "wait" => i > 1 /\ l[i - 1][1] = "mine"
              /\ l[i][1] = "sync" => i > 1 /\ l[i - 1][1] = "wait"
        /\ (Len(l) > 0 /\ Last(l)[1] = "wait") =>
              /\ esplora >= height[h]
              /\ height[h] = chain

C18_Witness ==
    \E h \in Handlers :
        /\ handler[h] = "idle"
        /\ \E i \in 1..Len(hlog[h]) :
              /\ hlog[h][i][1] = "fetch" /\ hlog[h][i][2][1] = "ChannelPending"
              /\ hlog[h][i + 3][1] = "sync"
              /\ hlog[h][i + 5][1] = "fetch"
        /\ Last(hlog[h])[1] = "respond"

\* C19: whatever the ports, as long as they do not clash, the root does not
\* serve its control API while the dependent of its bootstrap has died or its
\* open-channel call has failed.
C19_NoPartialTopology ==
    ~(/\ PortsDoNotClash
      /\ main["root"] = "serving"
      /\ \/ main["dep"] = "panicked"
         \/ \E h \in Handlers : handler[h] = "panicked")

\* The order of the root's self-funding, as pairs of successive places of main().
FundingOrder ==
    {<<"fund", "mine">>, <<"mine", "wait">>, <<"wait", "sync">>, <<"sync", "spawn">>,
     <<"spawn", "bind">>}

\* C24: the root sends the funds, mines one block, waits until the indexer
\* has reached the new height and resynchronizes its wallet, in this order,
\* and the dependent is spawned only after all of that.
C24_FundingBeforeSpawn ==
    /\ [][(main'["root"] # main["root"] /\ main["root"] \in {"fund", "mine", "wait", "sync", "spawn"}) =>
             \/ main'["root"] = "panicked"
             \/ /\ <<main["root"], main'["root"]>> \in FundingOrder
                /\ main["root"] = "mine" => chain' = chain + FundingBlocks /\ height'[0] = chain'
                /\ main["root"] # "mine" => chain' = chain
                /\ main["root"] = "wait" => esplora >= height[0] /\ height[0] = chain
                /\ main["root"] = "sync" => node'["root"].tip >= height[0]]_vars
    /\ [][main["dep"] = "unborn" /\ main'["dep"] # "unborn" =>
             /\ main["root"] = "spawn" /\ main'["root"] = "bind"
             /\ node["root"].tip = chain /\ chain = FundedBlocks + FundingBlocks]_vars

C24_Witness ==
    /\ main["dep"] = "build"
    /\ node["root"].tip = FundedBlocks + FundingBlocks

\* C25: the dependent issues its open-channel request only when the root's
\* control API is listening.
C25_RequestFindsRootListening ==
    [][(PortsDoNotClash /\ main["dep"] = "call" /\ main'["dep"] # "call") =>
          main["root"] = "serving"]_vars

\* C29: the four ports of a root and its dependent are pairwise distinct,
\* here granted that the root's own two ports differ.
C29_FourPortsDistinct ==
    (main["dep"] # "unborn" /\ args.api # args.ln) =>
        Cardinality({args.api, args.ln, child_args.api, child_args.ln}) = 4

\* C30: whatever the root's ports, the dependent is spawned and its ports are
\* the root's plus one, within the 16-bit range.
C30_ChildPortsAreSuccessors ==
    /\ main["dep"] # "unborn" =>
          /\ child_args.api = args.api + 1 /\ child_args.api <= MaxU16
          /\ child_args.ln = args.ln + 1 /\ child_args.ln <= MaxU16
    /\ [][main["root"] = "spawn" /\ main'["root"] # "spawn" => main'["dep"] = "build"]_vars

\* C28: the configuration cached in a returned instance was answered by the
\* child process that the instance owns.
C28_ProbeAnsweredByOwnChild ==
    \A c \in Calls :
        LiveInstance(c) => inst[c].lsp_config = <<c, inst[c].process>>

\* Thread c is inside with_conf.
Launching(c) == pc[c] \in {"dir", "api_port", "ln_port", "spawn", "try_wait", "probe"}

\* C27: with_conf returns, having spawned at most attempts + 1 children; the
\* remaining budget goes down by exactly one at each retry, at no other
\* step, and is never below zero.
C27_WithConfTerminates ==
    /\ [](\A c \in Calls :
            /\ remaining[c] \in 0..conf[c].attempts
            /\ Spawns(c) <= conf[c].attempts + 1
            /\ Len(att[c]) <= conf[c].attempts - remaining[c] + 1)
    /\ [][\A c \in Calls :
            remaining'[c] # remaining[c] =>
                /\ remaining'[c] = remaining[c] - 1
                /\ pc[c] = "try_wait" /\ pc'[c] = "dir"
                /\ Last(att[c]).proc = "exited"]_vars
    /\ \A c \in Launchers : Launching(c) ~> ~Launching(c)

C27_Witness ==
    \E c \in Calls :
        /\ ~Launching(c) /\ pc[c] = "err" /\ result[c].kind = "EarlyExit"
        /\ conf[c].attempts = MaxAttempts /\ Spawns(c) = MaxAttempts + 1
        /\ remaining[c] = 0

\* A request handler of the root has mined and is waiting for the indexer to
\* reach the height it mined.
MiningAndWaiting(w) == handler[w] = "wait"

\* C21: on one root at most one "mine blocks, then wait for the indexer"
\* sequence, of the faucet handler or of an open_channel confirmation loop, is
\* in progress at any time.
C21_MineAndWaitSerialized ==
    Cardinality({w \in Requests : MiningAndWaiting(w)}) <= 1

\* Open-channel request g is in its confirmation loop.
InLoop(g) == handler[g] \in {"fetch", "mine", "wait", "sync", "ack"}

\* C26: an open_channel handler answers only after it fetched the
\* channel-ready event of the channel its own request opened, and its
\* event_handled never drops an event of a channel whose handler is still in
\* its confirmation loop.
C26_OwnEventsOnly ==
    /\ [](\A h \in Handlers : \A i \in 1..Len(hlog[h]) :
            hlog[h][i][1] = "respond" =>
                i > 2 /\ hlog[h][i - 2] = <<"fetch", Ev("ChannelReady", h)>>)
    /\ [][\A h \in Handlers :
            (handler[h] = "ack" /\ handler'[h] # "ack") =>
                \A g \in Handlers \ {h} : InLoop(g) => Head(events)[2] # g]_vars

\* C23: whatever channels the daemon's node lists, LspsClient::list_channels
\* returns that same list from the body the GET /channels handler served.
C23_ListChannelsRoundTrip ==
    (/\ client.op = "list_channels"
     /\ client.pc = "returned"
     /\ client.reply.from = "daemon") => client.outcome = Ok(channels)

\* C22: an operation that has returned sent exactly one request, and
\* returned an Err if the request failed or the body did not decode or parse,
\* an Ok if not; it never panics.
C22_OneRequestAndErrOnFailure ==
    client.pc = "returned" =>
        /\ client.requests = 1
        /\ client.outcome[1] \in {"Ok", "Err"}
        /\ client.reply.from \in {"nobody", "other"} /\ client.op # "sync" =>
              client.outcome[1] = "Err"

\* with_conf of call c was called and has returned.
Returned(c) == pc[c] # "unused" /\ ~Launching(c)

\* The frames of call c whose attempt was abandoned after an early exit: all
\* but the last one.
Abandoned(c) == 1..(Len(att[c]) - 1)

\* C31: once with_conf has returned, no temporary working directory of an
\* abandoned attempt of the call is on disk, nor one of any attempt if it
\* returned an error; when it returns an instance, the only temporary
\* directory of the call on disk is the one the instance owns.
C31_NoAbandonedTempDirs ==
    \A c \in Calls :
        Returned(c) =>
            /\ \A k \in Abandoned(c) :
                  att[c][k].kind = "Temporary" => att[c][k].dir \notin disk
            /\ result[c].kind # "Ok" =>
                  \A k \in 1..Len(att[c]) :
                      att[c][k].kind = "Temporary" => att[c][k].dir \notin disk
            /\ pc[c] = "live" =>
                  {att[c][k].dir : k \in {j \in 1..Len(att[c]) : att[c][j].kind = "Temporary"}}
                      \cap disk
                  = IF inst[c].kind = "Temporary" THEN {inst[c].work_dir} ELSE {}

C31_Witness ==
    \E c \in Calls :
        /\ pc[c] = "live"
        /\ Abandoned(c) # {}
        /\ att[c][1].kind = "Temporary"
        /\ inst[c].kind = "Temporary" /\ inst[c].work_dir \in disk

\* C32: no step of the daemon's startup, of the root or of the dependent,
\* takes away the contents a data directory held before the daemon started.
C32_DataDirContentsKept ==
    [][\A d \in Dirs : fs[d] = "old" => fs'[d] = "old"]_vars

====
